---------------------------- MODULE Spec2Model ----------------------------
(***************************************************************************)
(* Gift Business API (src/back.py): a FastAPI application over one SQLite   *)
(* table, products.  The model keeps the committed table, the AUTOINCREMENT *)
(* counter SQLite keeps for it, the wall clock CURRENT_TIMESTAMP reads, the *)
(* database handles get_db hands out, and the last request handled with its *)
(* response.                                                                *)
(*                                                                          *)
(* Every handler is an `async def` without an await, so the event loop runs *)
(* it to completion: Spec has one atomic action per endpoint.  SpecConc     *)
(* splits each request at the boundaries of `with get_db()` (enter, body,   *)
(* exit) and interleaves several requests, which covers deployments with    *)
(* more than one worker on the same database file.                          *)
(*                                                                          *)
(* Representation.  An Optional value is <<>> (None / SQL NULL) or <<v>>.   *)
(* The category text is a tuple of characters.  An integer price is the     *)
(* pair hi * 2^27 + lo, so that values around 2^53 (where an IEEE double    *)
(* stops being exact) stay within 32-bit integers.  created_at is          *)
(* the number of whole seconds CURRENT_TIMESTAMP shows.                     *)
(***************************************************************************)
EXTENDS Integers, Sequences, FiniteSets, TLC

VARIABLES rows, seq, now, open, pc, conn, res, last, deleted

vars == <<rows, seq, now, open, pc, conn, res, last, deleted>>

\* Bounds of the model.
MaxProducts == 2
MaxClock == 1
MaxInFlight == 2

NULL == <<>>
Some(v) == <<v>>

\* ------------------------------------------------------------------------
\* Values of the columns

\* One limb of a price: 2^27.
Limb == 134217728
\* hi of 2^53, the first integer whose successor is no IEEE double.
ExactLimit == 67108864

Int10 == [hi |-> 0, lo |-> 10]
Int2p53plus1 == [hi |-> ExactLimit, lo |-> 1]

\* What a REAL column stores for an integer bound to it: the nearest double,
\* ties to even.  Below 2^53 every integer is a double; in [2^53, 2^54) the
\* doubles are the even integers.  Prices of the model stay below 2^54.
IntToReal(p) ==
    IF p.hi < ExactLimit
    THEN [real |-> TRUE, hi |-> p.hi, lo |-> p.lo]
    ELSE LET r  == p.lo % 4
             lo == IF r = 1 THEN p.lo - 1 ELSE IF r = 3 THEN p.lo + 1 ELSE p.lo
         IN  IF lo = Limb
             THEN [real |-> TRUE, hi |-> p.hi + 1, lo |-> 0]
             ELSE [real |-> TRUE, hi |-> p.hi, lo |-> lo]

\* The response model's `price: int` given the float read from the row: a
\* float without a fractional part becomes the integer of the same value.
RealToInt(x) == [hi |-> x.hi, lo |-> x.lo]

\* Python bool bound to the BOOLEAN (numeric) column, and read back through
\* the response model's `is_available: bool`.
BoolToSql(b) == IF b THEN 1 ELSE 0
SqlToBool(n) == n = 1

\* ------------------------------------------------------------------------
\* Request bodies

Home == <<"H", "o", "m", "e">>
Ho == <<"H", "o">>
Empty == <<>>

Field(body, f, default) == IF f \in DOMAIN body THEN body[f] ELSE default

\* ProductBase: name and price required, the rest defaulted; other keys of
\* the body are ignored.
ProductBase(body) ==
    [name         |-> body.name,
     description  |-> Field(body, "description", NULL),
     price        |-> body.price,
     image_url    |-> Field(body, "image_url", NULL),
     category     |-> Field(body, "category", NULL),
     is_available |-> Field(body, "is_available", TRUE)]

\* ProductCreate: ProductBase plus the optional telegram_message_id.
ProductCreate(body) ==
    [name                |-> body.name,
     description         |-> Field(body, "description", NULL),
     price               |-> body.price,
     image_url           |-> Field(body, "image_url", NULL),
     category            |-> Field(body, "category", NULL),
     is_available        |-> Field(body, "is_available", TRUE),
     telegram_message_id |-> Field(body, "telegram_message_id", NULL)]

\* The response model Product, built from dict(row).
Product(row) ==
    [id                  |-> row.id,
     name                |-> row.name,
     description         |-> row.description,
     price               |-> RealToInt(row.price),
     image_url           |-> row.image_url,
     category            |-> row.category,
     is_available        |-> SqlToBool(row.is_available),
     created_at          |-> row.created_at,
     telegram_message_id |-> row.telegram_message_id]

\* The request bodies the model sends.
CreateBodies ==
    { [name |-> "Mug", price |-> Int10, category |-> Some(Home)],
      [name |-> "Cup", description |-> Some("d"), price |-> Int2p53plus1,
       image_url |-> Some("u"), category |-> Some(Ho), is_available |-> FALSE,
       telegram_message_id |-> Some(7)] }

UpdateBodies ==
    { [name |-> "Cup", description |-> Some("d"), price |-> Int10,
       image_url |-> Some("u"), category |-> Some(Empty), is_available |-> FALSE],
      [name |-> "Mug", price |-> Int2p53plus1, telegram_message_id |-> Some(9)] }

\* The category parameters the list requests of the model carry.
CategoryParams == {NULL, Some(Empty), Some(Ho)}

Ids == 1..(MaxProducts + 1)

\* ------------------------------------------------------------------------
\* SQL statements over the products table

MaxOf(S) == IF S = {} THEN 0 ELSE CHOOSE m \in S : \A x \in S : x <= m

\* Mutant: the id column without AUTOINCREMENT, where SQLite takes one more
\* than the largest id now in the table.
SqlInsertRowidReuse(db, t, p) ==
    LET id  == MaxOf(DOMAIN db.rows) + 1
        row == [id                  |-> id,
                name                |-> p.name,
                description         |-> p.description,
                price               |-> IntToReal(p.price),
                image_url           |-> p.image_url,
                category            |-> p.category,
                is_available        |-> BoolToSql(p.is_available),
                created_at          |-> t,
                telegram_message_id |-> p.telegram_message_id]
    IN  [db |-> [rows |-> [i \in DOMAIN db.rows \cup {id} |->
                              IF i = id THEN row ELSE db.rows[i]],
                 seq  |-> MaxOf({id, db.seq})],
         lastrowid |-> id]

\* INSERT INTO products (...) VALUES (...): AUTOINCREMENT takes an id above
\* every id the table ever held; is_available is given, created_at defaults
\* to CURRENT_TIMESTAMP.
SqlInsert(db, t, p) ==
    LET id  == MaxOf(DOMAIN db.rows \cup {db.seq}) + 1
        row == [id                  |-> id,
                name                |-> p.name,
                description         |-> p.description,
                price               |-> IntToReal(p.price),
                image_url           |-> p.image_url,
                category            |-> p.category,
                is_available        |-> BoolToSql(p.is_available),
                created_at          |-> t,
                telegram_message_id |-> p.telegram_message_id]
    IN  [db |-> [rows |-> [i \in DOMAIN db.rows \cup {id} |->
                              IF i = id THEN row ELSE db.rows[i]],
                 seq  |-> id],
         lastrowid |-> id]

\* Mutant: the update written as an upsert, which inserts the row when no
\* row has the id.
SqlUpdateUpsert(db, id, p) ==
    LET old == IF id \in DOMAIN db.rows THEN db.rows[id]
               ELSE [id |-> id, created_at |-> 0, telegram_message_id |-> NULL]
        row == [id                  |-> id,
                name                |-> p.name,
                description         |-> p.description,
                price               |-> IntToReal(p.price),
                image_url           |-> p.image_url,
                category            |-> p.category,
                is_available        |-> BoolToSql(p.is_available),
                created_at          |-> old.created_at,
                telegram_message_id |-> old.telegram_message_id]
    IN  [db |-> [db EXCEPT !.rows = [i \in DOMAIN db.rows \cup {id} |->
                                        IF i = id THEN row ELSE db.rows[i]]],
         rowcount |-> 1]

\* Mutant: the update also writes telegram_message_id, which ProductBase
\* does not carry, so the column is cleared.
SqlUpdateClearsTelegram(db, id, p) ==
    LET hit == {i \in DOMAIN db.rows : i = id}
    IN  [db |-> [db EXCEPT !.rows =
                    [i \in DOMAIN db.rows |->
                        IF i \in hit
                        THEN [db.rows[i] EXCEPT
                                 !.name                = p.name,
                                 !.description         = p.description,
                                 !.price               = IntToReal(p.price),
                                 !.image_url           = p.image_url,
                                 !.category            = p.category,
                                 !.is_available        = BoolToSql(p.is_available),
                                 !.telegram_message_id = NULL]
                        ELSE db.rows[i]]],
         rowcount |-> Cardinality(hit)]

\* UPDATE products SET name = ?, ..., is_available = ? WHERE id = ?
SqlUpdate(db, id, p) ==
    LET hit == {i \in DOMAIN db.rows : i = id}
    IN  [db |-> [db EXCEPT !.rows =
                    [i \in DOMAIN db.rows |->
                        IF i \in hit
                        THEN [db.rows[i] EXCEPT
                                 !.name         = p.name,
                                 !.description  = p.description,
                                 !.price        = IntToReal(p.price),
                                 !.image_url    = p.image_url,
                                 !.category     = p.category,
                                 !.is_available = BoolToSql(p.is_available)]
                        ELSE db.rows[i]]],
         rowcount |-> Cardinality(hit)]

\* DELETE FROM products WHERE id = ?
SqlDelete(db, id) ==
    LET hit == {i \in DOMAIN db.rows : i = id}
    IN  [db |-> [db EXCEPT !.rows = [i \in DOMAIN db.rows \ hit |-> db.rows[i]]],
         rowcount |-> Cardinality(hit)]

\* SELECT * FROM products WHERE id = ?, fetchone(): None or the row.
SqlSelectById(db, id) ==
    IF id \in DOMAIN db.rows THEN Some(db.rows[id]) ELSE NULL

\* Mutant: the order lookup without the is_available test.
SqlSelectOrderableAny(db, id) ==
    IF id \in DOMAIN db.rows THEN Some(<<db.rows[id].name>>) ELSE NULL

\* SELECT name FROM products WHERE id = ? AND is_available = TRUE, fetchone().
SqlSelectOrderable(db, id) ==
    IF id \in DOMAIN db.rows /\ db.rows[id].is_available = 1
    THEN Some(<<db.rows[id].name>>)
    ELSE NULL

IsPrefix(a, b) == Len(a) <= Len(b) /\ SubSeq(b, 1, Len(a)) = a

\* Mutant: the category compared with LIKE ? || '%' instead of =.
ProductsWherePrefix(row, category, available_only) ==
    /\ (category # NULL /\ category[1] # Empty)
          => (row.category # NULL /\ IsPrefix(category[1], row.category[1]))
    /\ available_only => row.is_available = 1

\* Mutant: available_only ignored.
ProductsWhereAnyAvailability(row, category, available_only) ==
    (category # NULL /\ category[1] # Empty) => row.category = category

\* The WHERE clause get_products builds: `if category:` adds the category
\* test only for a non-empty string, `if available_only:` the other one.
ProductsWhere(row, category, available_only) ==
    /\ (category # NULL /\ category[1] # Empty) => row.category = category
    /\ available_only => row.is_available = 1

\* ORDER BY created_at DESC: SQL fixes the order of rows with different
\* keys only, so every arrangement of equal keys is a possible result.
OrderByCreatedAtDesc(S) ==
    LET n == Cardinality(S)
    IN  { s \in [1..n -> S] :
            /\ \A i, j \in 1..n : i # j => s[i] # s[j]
            /\ \A i, j \in 1..n : i < j => s[i].created_at >= s[j].created_at }

\* The rows of a table scan, in rowid order.
RECURSIVE Scan(_, _)
Scan(db, S) ==
    IF S = {} THEN <<>>
    ELSE LET i == CHOOSE x \in S : \A y \in S : x <= y
         IN  <<db.rows[i]>> \o Scan(db, S \ {i})

RECURSIVE Distinct(_)
Distinct(s) ==
    IF s = <<>> THEN <<>>
    ELSE LET d == Distinct(SubSeq(s, 1, Len(s) - 1))
         IN  IF \E i \in 1..Len(d) : d[i] = s[Len(s)] THEN d ELSE Append(d, s[Len(s)])

\* Mutant: the query without DISTINCT.
SqlSelectCategory(db) ==
    LET all == Scan(db, DOMAIN db.rows)
        cat == [i \in 1..Len(all) |-> all[i].category]
    IN  SelectSeq(cat, LAMBDA c : c # NULL)

\* SELECT DISTINCT category FROM products WHERE category IS NOT NULL
SqlSelectDistinctCategory(db) ==
    LET all == Scan(db, DOMAIN db.rows)
        cat == [i \in 1..Len(all) |-> all[i].category]
    IN  Distinct(SelectSeq(cat, LAMBDA c : c # NULL))

\* ------------------------------------------------------------------------
\* Handlers: the outcome of a handler body on the committed database db.
\* An outcome is the database left committed, whether the body raised, and
\* the response.  A body that raises before conn.commit() leaves the
\* database as it was: its statement is rolled back when the handle closes.

Return(db, body) == [db |-> db, raised |-> FALSE, status |-> 200, body |-> body]
NotFound(db, detail) == [db |-> db, raised |-> TRUE, status |-> 404, body |-> detail]

get_products(db, category, available_only) ==
    LET hit == {db.rows[i] : i \in {j \in DOMAIN db.rows :
                    ProductsWhere(db.rows[j], category, available_only)}}
    IN  {Return(db, [i \in 1..Len(s) |-> Product(s[i])]) :
            s \in OrderByCreatedAtDesc(hit)}

get_product(db, product_id) ==
    LET row == SqlSelectById(db, product_id)
    IN  IF row = NULL THEN NotFound(db, "Product not found")
        ELSE Return(db, Product(row[1]))

create_product(db, t, body) ==
    LET ins == SqlInsert(db, t, ProductCreate(body))
        row == SqlSelectById(ins.db, ins.lastrowid)
    IN  Return(ins.db, Product(row[1]))

update_product(db, product_id, body) ==
    LET upd == SqlUpdate(db, product_id, ProductBase(body))
    IN  IF upd.rowcount = 0 THEN NotFound(db, "Product not found")
        ELSE Return(upd.db, Product(SqlSelectById(upd.db, product_id)[1]))

delete_product(db, product_id) ==
    LET del == SqlDelete(db, product_id)
    IN  IF del.rowcount = 0 THEN NotFound(db, "Product not found")
        ELSE Return(del.db, "Product deleted successfully")

get_categories(db) ==
    Return(db, SelectSeq(SqlSelectDistinctCategory(db),
                         LAMBDA c : c # NULL /\ c[1] # Empty))

order_product(db, product_id) ==
    LET row == SqlSelectOrderable(db, product_id)
    IN  IF row = NULL THEN NotFound(db, "Product not found or not available")
        ELSE Return(db, [product_id   |-> product_id,
                         product_name |-> row[1][1],
                         message      |-> <<"To order '", row[1][1],
                                            "', please visit our Telegram channel">>])

\* ------------------------------------------------------------------------
\* get_db: the handle of one request

\* sqlite3.connect: a handle that is none of the open ones.
Connect(handles) == CHOOSE h \in 1..(Cardinality(handles) + 1) : h \notin handles

\* Mutant: get_db without try/finally, closing only after a body that
\* returned.
CloseOnReturnOnly(handles, h, raised) == IF raised THEN handles ELSE handles \ {h}

\* The finally clause of get_db: the handle is closed however the body ended.
Close(handles, h, raised) == handles \ {h}

DB == [rows |-> rows, seq |-> seq]

Requests == 1..MaxInFlight

Init ==
    /\ rows = <<>>
    /\ seq = 0
    /\ now = 0
    /\ open = {}
    /\ pc = [r \in Requests |-> "idle"]
    /\ conn = [r \in Requests |-> 0]
    /\ res = [r \in Requests |-> "none"]
    /\ last = [op |-> "none", status |-> 0]
    /\ deleted = {}

\* The effect of a handler body: the database it leaves, the record of the
\* request, and the ids deleted so far.
Handled(o, op, args) ==
    /\ rows' = o.db.rows
    /\ seq' = o.db.seq
    /\ last' = [op |-> op, args |-> args, status |-> o.status, body |-> o.body]
    /\ deleted' = IF op = "delete" /\ o.status = 200
                  THEN deleted \cup {args.id} ELSE deleted

\* A whole request, run without interruption: get_db opens a handle, the
\* body runs, the handle is closed.
Atomic(o) ==
    /\ \A r \in Requests : pc[r] \in {"idle", "ended"}
    /\ LET h == Connect(open) IN open' = Close(open \cup {h}, h, o.raised)
    /\ UNCHANGED <<now, pc, conn, res>>

GetProducts ==
    \E category \in CategoryParams, available_only \in BOOLEAN :
       \E o \in get_products(DB, category, available_only) :
          /\ Atomic(o)
          /\ Handled(o, "list", [category |-> category, available_only |-> available_only])

GetProduct ==
    \E id \in Ids :
       LET o == get_product(DB, id)
       IN  Atomic(o) /\ Handled(o, "get", [id |-> id])

CreateProduct ==
    \E body \in CreateBodies :
       /\ seq < MaxProducts
       /\ LET o == create_product(DB, now, body)
          IN  Atomic(o) /\ Handled(o, "create", [body |-> body])

UpdateProduct ==
    \E id \in Ids, body \in UpdateBodies :
       LET o == update_product(DB, id, body)
       IN  Atomic(o) /\ Handled(o, "update", [id |-> id, body |-> body])

DeleteProduct ==
    \E id \in Ids :
       LET o == delete_product(DB, id)
       IN  Atomic(o) /\ Handled(o, "delete", [id |-> id])

GetCategories ==
    LET o == get_categories(DB)
    IN  Atomic(o) /\ Handled(o, "categories", [id |-> 0])

OrderProduct ==
    \E id \in Ids :
       LET o == order_product(DB, id)
       IN  Atomic(o) /\ Handled(o, "order", [id |-> id])

\* A second of wall-clock time passes.
Tick ==
    /\ now < MaxClock
    /\ now' = now + 1
    /\ UNCHANGED <<rows, seq, open, pc, conn, res, last, deleted>>

Next ==
    \/ GetProducts
    \/ GetProduct
    \/ CreateProduct
    \/ UpdateProduct
    \/ DeleteProduct
    \/ GetCategories
    \/ OrderProduct
    \/ Tick

Spec == Init /\ [][Next]_vars

\* ------------------------------------------------------------------------
\* Requests in flight together: each one enters get_db, runs its body, and
\* leaves get_db through the finally clause.

Active(r) == pc[r] \in {"entered", "exiting"}

Enter(r) ==
    /\ pc[r] \in {"idle", "ended"}
    /\ LET h == Connect(open)
       IN  /\ open' = open \cup {h}
           /\ conn' = [conn EXCEPT ![r] = h]
    /\ pc' = [pc EXCEPT ![r] = "entered"]
    /\ res' = [res EXCEPT ![r] = "none"]
    /\ UNCHANGED <<rows, seq, now, last, deleted>>

Body(r, o, op, args) ==
    /\ pc[r] = "entered"
    /\ pc' = [pc EXCEPT ![r] = "exiting"]
    /\ res' = [res EXCEPT ![r] = IF o.raised THEN "raise" ELSE "return"]
    /\ Handled(o, op, args)
    /\ UNCHANGED <<now, open, conn>>

Exit(r) ==
    /\ pc[r] = "exiting"
    /\ open' = Close(open, conn[r], res[r] = "raise")
    /\ conn' = [conn EXCEPT ![r] = 0]
    /\ pc' = [pc EXCEPT ![r] = "ended"]
    /\ UNCHANGED <<rows, seq, now, res, last, deleted>>

\* The requests sent while others are in flight.
ConcCreateBody == [name |-> "Mug", price |-> Int10, category |-> Some(Home)]
ConcUpdateBody == [name |-> "Cup", price |-> Int10, is_available |-> FALSE]

ConcGetProducts(r) ==
    \E o \in get_products(DB, NULL, TRUE) :
       Body(r, o, "list", [category |-> NULL, available_only |-> TRUE])

ConcGetProduct(r) ==
    \E id \in Ids : Body(r, get_product(DB, id), "get", [id |-> id])

ConcCreateProduct(r) ==
    /\ seq < MaxProducts
    /\ Body(r, create_product(DB, now, ConcCreateBody), "create",
            [body |-> ConcCreateBody])

ConcUpdateProduct(r) ==
    \E id \in Ids :
       Body(r, update_product(DB, id, ConcUpdateBody), "update",
            [id |-> id, body |-> ConcUpdateBody])

ConcDeleteProduct(r) ==
    \E id \in Ids : Body(r, delete_product(DB, id), "delete", [id |-> id])

ConcGetCategories(r) == Body(r, get_categories(DB), "categories", [id |-> 0])

ConcOrderProduct(r) ==
    \E id \in Ids : Body(r, order_product(DB, id), "order", [id |-> id])

NextConc ==
    \E r \in Requests :
       \/ Enter(r)
       \/ ConcGetProducts(r)
       \/ ConcGetProduct(r)
       \/ ConcCreateProduct(r)
       \/ ConcUpdateProduct(r)
       \/ ConcDeleteProduct(r)
       \/ ConcGetCategories(r)
       \/ ConcOrderProduct(r)
       \/ Exit(r)

SpecConc == Init /\ [][NextConc]_vars

\* ------------------------------------------------------------------------
\* Properties

Range(s) == {s[i] : i \in 1..Len(s)}

\* The strings, and the optional strings, the properties about the category
\* parameter range over.
CategoryStrings == {Empty, Ho, Home}
AnyCategory == {NULL} \cup {Some(X) : X \in CategoryStrings}

\* C1: a product fetched by the id create returned has the name,
\* description, price, image_url, category, is_available and
\* telegram_message_id of the create request (defaults applied), and the id
\* and created_at create returned.
C1_CreateThenGetEqualsRequest ==
    last.op = "create" =>
        LET want == ProductCreate(last.args.body)
            got  == get_product(DB, last.body.id)
        IN  /\ got.status = 200
            /\ got.body.name = want.name
            /\ got.body.description = want.description
            /\ got.body.price = want.price
            /\ got.body.image_url = want.image_url
            /\ got.body.category = want.category
            /\ got.body.is_available = want.is_available
            /\ got.body.telegram_message_id = want.telegram_message_id
            /\ got.body.id = last.body.id
            /\ got.body.created_at = last.body.created_at

\* C2: once product i is deleted, get-by-id i is Not-Found in every later
\* state, and no create gives id i to a new product.
C2_DeletedStaysNotFound ==
    \A i \in deleted :
        /\ get_product(DB, i).status = 404
        /\ \A body \in CreateBodies : create_product(DB, now, body).body.id # i

C2_Witness ==
    /\ last.op = "get"
    /\ last.status = 404
    /\ last.args.id \in deleted
    /\ \E j \in DOMAIN rows : j > last.args.id

\* C3: an update whose id matches no stored product answers 404 and leaves
\* every row, and the set of rows, as they were.
C3_UpdateMissingLeavesStore ==
    [][(last'.op = "update" /\ last'.args.id \notin DOMAIN rows)
          => (last'.status = 404 /\ rows' = rows /\ seq' = seq)]_vars

C3_Witness ==
    /\ last.op = "update"
    /\ last.status = 404
    /\ DOMAIN rows # {}

\* C4 as stated: for every string X given as category, and either value of
\* available_only, every record of the list response has category X.
C4_EveryStringFilters ==
    \A X \in CategoryStrings, available_only \in BOOLEAN :
        \A o \in get_products(DB, Some(X), available_only) :
            \A rec \in Range(o.body) : rec.category = Some(X)

\* C4 amended: for every non-empty string X given as category, and either
\* value of available_only, every record of the list response has category
\* exactly X; an empty category parameter is no filter.
C4_NonEmptyStringFilters ==
    \A X \in CategoryStrings \ {Empty}, available_only \in BOOLEAN :
        \A o \in get_products(DB, Some(X), available_only) :
            \A rec \in Range(o.body) : rec.category = Some(X)

C4_Witness ==
    /\ last.op = "list"
    /\ last.args.category = Some(Ho)
    /\ Len(last.body) >= 1
    /\ \E j \in DOMAIN rows : rows[j].category = Some(Home)

\* C5: a list request with available_only true, with or without a category,
\* returns no record whose is_available is false, and returns every stored
\* available product that matches the category.
C5_AvailableOnly ==
    \A category \in AnyCategory :
        \A o \in get_products(DB, category, TRUE) :
            /\ \A rec \in Range(o.body) : rec.is_available = TRUE
            /\ \A j \in DOMAIN rows :
                  ( /\ Product(rows[j]).is_available = TRUE
                    /\ (category = NULL \/ rows[j].category = category) )
                  => \E rec \in Range(o.body) : rec.id = j

C5_Witness ==
    /\ last.op = "list"
    /\ last.args.available_only
    /\ Len(last.body) >= 1
    /\ \E j \in DOMAIN rows : Product(rows[j]).is_available = FALSE

\* C6: the categories response holds no null, no empty string and no value
\* twice, and holds every non-null, non-empty category of a stored product.
C6_Categories ==
    LET b == get_categories(DB).body
    IN  /\ \A i \in 1..Len(b) : b[i] # NULL /\ b[i] # Some(Empty)
        /\ \A i, j \in 1..Len(b) : i # j => b[i] # b[j]
        /\ \A j \in DOMAIN rows :
              (rows[j].category # NULL /\ rows[j].category # Some(Empty))
              => rows[j].category \in Range(b)

C6_Witness ==
    /\ last.op = "categories"
    /\ Len(last.body) = 1
    /\ Cardinality(DOMAIN rows) = 2
    /\ \A j \in DOMAIN rows : rows[j].category = Some(Home)

\* C7: the order lookup for id i succeeds exactly when product i is stored
\* and available; on success the message holds the product's name, otherwise
\* the answer is 404; the store is left as it was.
C7_OrderLookup ==
    [][last'.op = "order" =>
          LET i  == last'.args.id
              ok == i \in DOMAIN rows /\ Product(rows[i]).is_available = TRUE
          IN  /\ last'.status = 200 <=> ok
              /\ last'.status = 200 => rows[i].name \in Range(last'.body.message)
              /\ last'.status # 200 => last'.status = 404
              /\ rows' = rows
              /\ seq' = seq]_vars

C7_Witness ==
    /\ last.op = "order"
    /\ last.status = 404
    /\ last.args.id \in DOMAIN rows

\* C8: a successful update of product i leaves the id, created_at and
\* telegram_message_id of row i, and every other row, as they were.
C8_UpdateFrame ==
    [][(last'.op = "update" /\ last'.status = 200) =>
          LET i == last'.args.id
          IN  /\ DOMAIN rows' = DOMAIN rows
              /\ seq' = seq
              /\ \A j \in DOMAIN rows : j # i => rows'[j] = rows[j]
              /\ rows'[i].id = rows[i].id
              /\ rows'[i].created_at = rows[i].created_at
              /\ rows'[i].telegram_message_id = rows[i].telegram_message_id]_vars

C8_Witness ==
    /\ last.op = "update"
    /\ last.status = 200
    /\ "telegram_message_id" \in DOMAIN last.args.body
    /\ rows[last.args.id].telegram_message_id = Some(7)
    /\ Cardinality(DOMAIN rows) = 2

\* C9: in a list response the product of the later create request comes
\* before the product of the earlier one (ids grow with every create), also
\* for products created within the same second.
C9_NewestFirst ==
    last.op = "list" =>
        \A i, j \in 1..Len(last.body) : i < j => last.body[i].id > last.body[j].id

\* C10: every request in flight holds an open handle of its own, no two
\* requests hold the same handle, and no handle stays open once its request
\* has ended, whether its body returned or raised.
C10_HandlePerRequest ==
    /\ \A r \in Requests : Active(r) => conn[r] \in open
    /\ \A r1, r2 \in Requests :
          (Active(r1) /\ Active(r2) /\ r1 # r2) => conn[r1] # conn[r2]
    /\ \A h \in open : \E r \in Requests : Active(r) /\ conn[r] = h

C10_Witness ==
    \E r1, r2 \in Requests :
        /\ r1 # r2
        /\ pc[r1] = "ended"
        /\ res[r1] = "raise"
        /\ pc[r2] = "entered"
        /\ open = {conn[r2]}

=============================================================================
